---- MODULE Spec2Model ----
(***************************************************************************)
(* Model of the three development HTTP servers of earth-engine:            *)
(*   serve.py            ESModuleHTTPRequestHandler                        *)
(*   web/serve.py        WebGPUDevServer                                   *)
(*   simple-server.py    MyHandler                                         *)
(* Each is a socketserver.TCPServer running a subclass of                  *)
(* http.server.SimpleHTTPRequestHandler.  The overrides are translated     *)
(* from the scripts; the inherited methods they call through super() are   *)
(* translated from CPython 3.11's http/server.py, posixpath.py and         *)
(* socketserver.py.                                                        *)
(*                                                                         *)
(* A path (URL path or file-system path) is a sequence of tokens; its text *)
(* is the concatenation of the tokens.  "/", "?", "#" are the characters;  *)
(* every other token is a run of ordinary characters (a file or directory  *)
(* name, a query).  No token holds "%", so urllib.parse.unquote leaves     *)
(* every path of the model as it is.                                       *)
(*                                                                         *)
(* Requests are GET request lines with no header fields (so no             *)
(* If-Modified-Since); the response headers Server, Date and Last-Modified *)
(* are left out of the header sets.                                        *)
(***************************************************************************)
EXTENDS Integers, Sequences, FiniteSets, TLC

VARIABLES handler, mimedb, workload, conn, queue

vars == <<handler, mimedb, workload, conn, queue>>

\* Longest run of directory pieces in a request path.
MaxDepth == 3
\* Clients of the concurrent workload.
NumClients == 2

Handlers == {"ESModuleHTTPRequestHandler", "WebGPUDevServer", "MyHandler"}

\* The table mimetypes answers from: the one built into mimetypes.py, or that
\* one extended by the host's mime.types files.
MimeDbs == {"builtin", "host"}

-----------------------------------------------------------------------------
(* str operations *)

\* Index of the first occurrence of token t in s, 0 when there is none.
FirstIndex(s, t) ==
    IF \E i \in 1..Len(s) : s[i] = t
    THEN CHOOSE i \in 1..Len(s) : s[i] = t /\ \A j \in 1..(i - 1) : s[j] # t
    ELSE 0

\* s.split(t)[0] and s.split(t, 1)[0]: the text before the first t.
SplitFirst(s, t) ==
    LET i == FirstIndex(s, t)
    IN IF i = 0 THEN s ELSE SubSeq(s, 1, i - 1)

\* s.startswith(p)
StartsWith(s, p) == Len(s) >= Len(p) /\ SubSeq(s, 1, Len(p)) = p

\* s[n:]
DropFirst(s, n) == SubSeq(s, n + 1, Len(s))

\* s.split("/"): the segments between the slashes, each a sequence of tokens.
RECURSIVE Split(_)
Split(s) ==
    LET i == FirstIndex(s, "/")
    IN IF i = 0 THEN <<s>>
       ELSE <<SubSeq(s, 1, i - 1)>> \o Split(DropFirst(s, i))

\* The extension a name token ends with ("" when it has none).
Ext(tok) ==
    CASE tok \in {"run.html", "index.html", "index.htm"} -> ".html"
      [] tok = "core.js" -> ".js"
      [] tok = "m.mjs" -> ".mjs"
      [] tok = "a.wasm" -> ".wasm"
      [] tok = "s.wgsl" -> ".wgsl"
      [] tok = "o.txt" -> ".txt"
      [] tok = "miss.xyz" -> ".xyz"
      [] OTHER -> ""

\* path.endswith(e) for an extension e
EndsWithExt(path, e) == Len(path) > 0 /\ Ext(path[Len(path)]) = e

\* path.endswith("/")
EndsWithSlash(path) == Len(path) > 0 /\ path[Len(path)] = "/"

\* len(s) of the MIME strings the default guess returns.
StrLen(s) ==
    CASE s = "text/html" -> 9
      [] s = "text/javascript" -> 15
      [] s = "text/plain" -> 10
      [] s = "text/wgsl" -> 9
      [] s = "chemical/x-xyz" -> 14
      [] s = "application/wasm" -> 16
      [] s = "application/javascript" -> 22
      [] s = "application/octet-stream" -> 24

-----------------------------------------------------------------------------
(* The file system the server runs on. A node is the sequence of names     *)
(* from "/" down.  The server's working directory (the document root) is   *)
(* /srv; /o.txt lies outside it.                                           *)

Cwd == <<"/", "srv">>
CwdNode == <<"srv">>

Dirs == {<<>>, <<"srv">>, <<"srv", "earth-engine-js">>}

Files ==
    {<<"o.txt">>,
     <<"srv", "run.html">>,
     <<"srv", "earth-engine-js", "index.html">>,
     <<"srv", "earth-engine-js", "core.js">>,
     <<"srv", "earth-engine-js", "m.mjs">>,
     <<"srv", "earth-engine-js", "a.wasm">>,
     <<"srv", "earth-engine-js", "s.wgsl">>}

NoNode == <<"ENOENT">>

\* The kernel's walk along the segments of an absolute path.
RECURSIVE Walk(_, _)
Walk(node, segs) ==
    IF segs = <<>> THEN node
    ELSE IF node \notin Dirs THEN NoNode
    ELSE LET seg == Head(segs)
         IN IF seg = <<>> \/ seg = <<".">> THEN Walk(node, Tail(segs))
            ELSE IF seg = <<"..">>
                 THEN Walk(IF node = <<>> THEN <<>> ELSE SubSeq(node, 1, Len(node) - 1),
                           Tail(segs))
            ELSE IF Len(seg) = 1 /\ (node \o seg) \in (Dirs \cup Files)
                 THEN Walk(node \o seg, Tail(segs))
            ELSE NoNode

\* The node an absolute file-system path names (a trailing slash asks for a
\* directory).
Resolve(path) ==
    LET n == Walk(<<>>, Split(path))
    IN IF EndsWithSlash(path) /\ n \notin Dirs THEN NoNode ELSE n

IsDir(path) == Resolve(path) \in Dirs
IsFile(path) == Resolve(path) \in Files

\* Whether a node lies in the document root's tree.
InsideRoot(node) == StartsWith(node, CwdNode)

-----------------------------------------------------------------------------
(* Inherited path translation (posixpath, os.path, http.server) *)

\* os.path.join(a, b)
OsPathJoin(a, b) ==
    IF StartsWith(b, <<"/">>) THEN b
    ELSE IF a = <<>> \/ EndsWithSlash(a) THEN a \o b
    ELSE a \o <<"/">> \o b

\* The component loop of posixpath.normpath: "" and "." are skipped, ".."
\* pops the last kept component (and is dropped at the top of an absolute
\* path, kept at the top of a relative one).
RECURSIVE NormComps(_, _, _)
NormComps(comps, kept, absolute) ==
    IF comps = <<>> THEN kept
    ELSE LET c == Head(comps)
             rest == Tail(comps)
         IN IF c = <<>> \/ c = <<".">> THEN NormComps(rest, kept, absolute)
            ELSE IF c # <<"..">>
                    \/ (~absolute /\ kept = <<>>)
                    \/ (kept # <<>> /\ kept[Len(kept)] = <<"..">>)
                 THEN NormComps(rest, Append(kept, c), absolute)
            ELSE IF kept # <<>>
                 THEN NormComps(rest, SubSeq(kept, 1, Len(kept) - 1), absolute)
            ELSE NormComps(rest, kept, absolute)

\* The word loop of SimpleHTTPRequestHandler.translate_path: every word that
\* is a plain name is joined on; "." and ".." are ignored.
RECURSIVE JoinWords(_, _)
JoinWords(path, words) ==
    IF words = <<>> THEN path
    ELSE IF Head(words) \in {<<".">>, <<"..">>} THEN JoinWords(path, Tail(words))
    ELSE JoinWords(OsPathJoin(path, Head(words)), Tail(words))

\* SimpleHTTPRequestHandler.translate_path, with self.directory = os.getcwd().
Lib_translate_path(path) ==
    LET p1 == SplitFirst(path, "?")
        p2 == SplitFirst(p1, "#")
        trailing_slash == EndsWithSlash(p2)
        words == NormComps(Split(p2), <<>>, StartsWith(p2, <<"/">>))
        joined == JoinWords(Cwd, words)
    IN IF trailing_slash THEN joined \o <<"/">> ELSE joined

\* urllib.parse.urlsplit(path).path: the text before the fragment and the
\* query.
UrlSplitPath(path) == SplitFirst(SplitFirst(path, "#"), "?")

\* BaseHTTPRequestHandler.parse_request: a request target that starts with
\* "//" is reduced to a single leading "/".
RECURSIVE LStripSlashes(_)
LStripSlashes(s) ==
    IF StartsWith(s, <<"/">>) THEN LStripSlashes(Tail(s)) ELSE s

ParseRequestPath(raw) ==
    IF StartsWith(raw, <<"/", "/">>) THEN <<"/">> \o LStripSlashes(raw) ELSE raw

-----------------------------------------------------------------------------
(* translate_path of each handler *)

\* '/earth-engine-js/'
RemapPrefix == <<"/", "earth-engine-js", "/">>

\* The variant of ESModule_translate_path that forgets the fragment.
ESModule_translate_path_KeepsFragment(path) ==
    LET p1 == SplitFirst(path, "?")
    IN IF StartsWith(p1, RemapPrefix)
       THEN OsPathJoin(OsPathJoin(Cwd, <<"earth-engine-js">>),
                       DropFirst(p1, Len(RemapPrefix)))
       ELSE Lib_translate_path(p1)

\* ESModuleHTTPRequestHandler.translate_path
ESModule_translate_path(path) ==
    LET p1 == SplitFirst(path, "?")
        p2 == SplitFirst(p1, "#")
    IN IF StartsWith(p2, RemapPrefix)
       THEN OsPathJoin(OsPathJoin(Cwd, <<"earth-engine-js">>),
                       DropFirst(p2, Len(RemapPrefix)))
       ELSE Lib_translate_path(p2)

\* self.translate_path as send_head calls it.
translate_path(h, path) ==
    IF h = "ESModuleHTTPRequestHandler" THEN ESModule_translate_path(path)
    ELSE Lib_translate_path(path)

\* self.path when send_head runs: MyHandler.do_GET and WebGPUDevServer.do_GET
\* cut the query off first; ESModuleHTTPRequestHandler inherits do_GET.
do_GET_path(h, path) ==
    IF h = "ESModuleHTTPRequestHandler" THEN path ELSE SplitFirst(path, "?")

-----------------------------------------------------------------------------
(* guess_type of each handler *)

ValueError == "ValueError"

\* SimpleHTTPRequestHandler.guess_type: the extension is looked up in
\* mimetypes' table, 'application/octet-stream' when it is not there. The
\* built-in table of CPython 3.11 has .js and .mjs as application/javascript
\* and knows neither .wgsl nor .xyz; a host's mime.types has them as
\* text/javascript, text/wgsl and chemical/x-xyz.
Lib_guess_type(path) ==
    CASE EndsWithExt(path, ".html") -> "text/html"
      [] EndsWithExt(path, ".js") \/ EndsWithExt(path, ".mjs") ->
            IF mimedb = "host" THEN "text/javascript" ELSE "application/javascript"
      [] EndsWithExt(path, ".wasm") -> "application/wasm"
      [] EndsWithExt(path, ".txt") -> "text/plain"
      [] EndsWithExt(path, ".wgsl") /\ mimedb = "host" -> "text/wgsl"
      [] EndsWithExt(path, ".xyz") /\ mimedb = "host" -> "chemical/x-xyz"
      [] OTHER -> "application/octet-stream"

\* ESModuleHTTPRequestHandler.guess_type: "mimetype, _ = super().guess_type(path)"
\* unpacks the inherited result, a str, into two names, which raises
\* ValueError unless the str has exactly two characters; otherwise the
\* result is the tuple (mimetype, None).
ESModule_guess_type(path) ==
    LET base == Lib_guess_type(path)
    IN IF StrLen(base) # 2 THEN ValueError
       ELSE IF EndsWithExt(path, ".js") THEN <<"application/javascript", "None">>
       ELSE IF EndsWithExt(path, ".mjs") THEN <<"application/javascript", "None">>
       ELSE IF EndsWithExt(path, ".wasm") THEN <<"application/wasm", "None">>
       ELSE <<"mimetype", "None">>

\* WebGPUDevServer.guess_type
WebGPU_guess_type(path) ==
    LET p == SplitFirst(path, "?")
        mimetype == Lib_guess_type(p)
    IN IF EndsWithExt(p, ".js") THEN "application/javascript"
       ELSE IF EndsWithExt(p, ".wasm") THEN "application/wasm"
       ELSE IF EndsWithExt(p, ".wgsl") THEN "text/plain"
       ELSE mimetype

\* self.guess_type as send_head calls it.
guess_type(h, path) ==
    CASE h = "ESModuleHTTPRequestHandler" -> ESModule_guess_type(path)
      [] h = "WebGPUDevServer" -> WebGPU_guess_type(path)
      [] OTHER -> Lib_guess_type(path)

-----------------------------------------------------------------------------
(* Response headers *)

ACAO == <<"Access-Control-Allow-Origin", "*">>
ACAM == <<"Access-Control-Allow-Methods", "GET, POST, OPTIONS">>
ACAH == <<"Access-Control-Allow-Headers", "Content-Type">>
CacheControl == <<"Cache-Control", "no-cache, no-store, must-revalidate">>
Pragma == <<"Pragma", "no-cache">>
Expires == <<"Expires", "0">>

\* The extended CORS headers and the cache-busting headers of the
\* development header set.
CorsGroup == {ACAM, ACAH}
CacheGroup == {CacheControl, Pragma, Expires}

\* ESModuleHTTPRequestHandler.end_headers
ESModule_end_headers == {ACAO, ACAM, ACAH}

\* A variant of WebGPU_end_headers that forgets the origin header.
WebGPU_end_headers_NoOrigin == {ACAM, ACAH, CacheControl, Pragma, Expires}

\* WebGPUDevServer.end_headers
WebGPU_end_headers == {ACAO, ACAM, ACAH, CacheControl, Pragma, Expires}

\* A variant of My_end_headers that forgets the Pragma header.
My_end_headers_NoPragma == {CacheControl, Expires}

\* MyHandler.end_headers
My_end_headers == {CacheControl, Pragma, Expires}

\* self.end_headers(): the headers the handler adds to every response head.
end_headers(h) ==
    CASE h = "ESModuleHTTPRequestHandler" -> ESModule_end_headers
      [] h = "WebGPUDevServer" -> WebGPU_end_headers
      [] OTHER -> My_end_headers

-----------------------------------------------------------------------------
(* Responses *)

\* What was sent as the body: nothing, an error page, the listing of a
\* directory node or the bytes of a file node.
Body(kind, node) == [kind |-> kind, node |-> node]

Response(h, raw, fspath, guess, status, hdrs, body) ==
    [handler |-> h, req |-> raw, translated |-> fspath, fspath |-> fspath,
     guess |-> guess, status |-> status, headers |-> hdrs \cup end_headers(h),
     body |-> body]

\* No request has been answered on the connection.
NoResp ==
    [handler |-> "-", req |-> <<>>, translated |-> <<>>, fspath |-> <<>>,
     guess |-> "-", status |-> "-", headers |-> {}, body |-> Body("none", NoNode)]

\* The exception leaves the handler: socketserver's handle_error logs it and
\* shutdown_request closes the connection. Nothing was written, the headers
\* buffer is never flushed.
Aborted(h, raw, fspath, guess) ==
    [handler |-> h, req |-> raw, translated |-> fspath, fspath |-> fspath,
     guess |-> guess, status |-> "none", headers |-> {},
     body |-> Body("none", NoNode)]

\* send_error(HTTPStatus.NOT_FOUND, "File not found")
send_error_404(h, raw, fspath, guess) ==
    Response(h, raw, fspath, guess, "404",
             {<<"Connection", "close">>,
              <<"Content-Type", "text/html;charset=utf-8">>,
              <<"Content-Length", "len">>},
             Body("error", NoNode))

\* SimpleHTTPRequestHandler.list_directory
list_directory(h, raw, fspath) ==
    Response(h, raw, fspath, "-", "200",
             {<<"Content-type", "text/html; charset=utf-8">>,
              <<"Content-Length", "len">>},
             Body("listing", Resolve(fspath)))

NoIndex == <<"-">>

\* The index file send_head finds in a directory, NoIndex when there is none.
IndexOf(dir) ==
    IF IsFile(OsPathJoin(dir, <<"index.html">>)) THEN OsPathJoin(dir, <<"index.html">>)
    ELSE IF IsFile(OsPathJoin(dir, <<"index.htm">>)) THEN OsPathJoin(dir, <<"index.htm">>)
    ELSE NoIndex

\* send_head from "ctype = self.guess_type(path)" on, and do_GET's copyfile.
send_file(h, raw, path) ==
    LET ctype == guess_type(h, path)
    IN IF ctype = ValueError THEN Aborted(h, raw, path, ctype)
       ELSE IF EndsWithSlash(path) THEN send_error_404(h, raw, path, ctype)
       ELSE IF ~IsFile(path) THEN send_error_404(h, raw, path, ctype)
       ELSE Response(h, raw, path, ctype, "200",
                     {<<"Content-type", ctype>>, <<"Content-Length", "len">>},
                     Body("file", Resolve(path)))

\* SimpleHTTPRequestHandler.send_head, self.path being selfpath. The record
\* keeps what translate_path returned beside the path that was served.
send_head(h, raw, selfpath) ==
    LET path == translate_path(h, selfpath)
        r == IF IsDir(path)
             THEN IF ~EndsWithSlash(UrlSplitPath(selfpath))
                  THEN Response(h, raw, path, "-", "301",
                                {<<"Location", "self.path/">>,
                                 <<"Content-Length", "0">>},
                                Body("empty", NoNode))
                  ELSE IF IndexOf(path) # NoIndex
                       THEN send_file(h, raw, IndexOf(path))
                  ELSE list_directory(h, raw, path)
             ELSE send_file(h, raw, path)
    IN [r EXCEPT !.translated = path]

\* handle_one_request for the request line "GET raw HTTP/1.x": parse_request,
\* the handler's do_GET, send_head.
do_GET(h, raw) == send_head(h, raw, do_GET_path(h, ParseRequestPath(raw)))

-----------------------------------------------------------------------------
(* Request targets *)

DirPieces == {<<"/", "earth-engine-js">>, <<"/", "..">>, <<"/">>}

FilePieces ==
    {<<>>, <<"/">>, <<"/", "run.html">>, <<"/", "core.js">>, <<"/", "m.mjs">>,
     <<"/", "a.wasm">>, <<"/", "s.wgsl">>, <<"/", "o.txt">>, <<"/", "miss.xyz">>}

Suffixes ==
    {<<>>, <<"?", "x=1">>, <<"#", "y">>, <<"?", "x=1", "#", "y">>,
     <<"#", "y", "?", "x=1">>}

RECURSIVE DirPrefixes(_)
DirPrefixes(n) ==
    IF n = 0 THEN {<<>>}
    ELSE LET shorter == DirPrefixes(n - 1)
         IN shorter \cup {d \o p : d \in shorter, p \in DirPieces}

\* The request targets of the workload "any".
RequestPaths ==
    {d \o f \o s : d \in DirPrefixes(MaxDepth), f \in FilePieces, s \in Suffixes}
        \ Suffixes

\* The request targets of the workload "few".
ConcPaths ==
    {<<"/", "run.html">>, <<"/", "miss.xyz">>,
     <<"/", "earth-engine-js", "/", "..", "/", "..", "/">>}

\* The request targets the clients of a workload send.
Targets(w) == IF w = "any" THEN RequestPaths ELSE ConcPaths

-----------------------------------------------------------------------------
(* The server loop: socketserver.TCPServer.serve_forever *)

Clients == DOMAIN conn

\* A client's connection: where it is (new, queued in the backlog, being
\* handled, done), what the client has written (no, request, eof), how many
\* times the server handled it and the response the client got.
NewConn == [st |-> "new", sent |-> "no", handled |-> 0, resp |-> NoResp]

\* A variant of ServerIdle for a server that starts a thread per connection.
ServerIdle_Threaded == TRUE

\* serve_forever has returned to its selector: TCPServer handles a request
\* inside the loop, on the loop's own thread, so no connection is being
\* handled.
ServerIdle == \A c \in Clients : conn[c].st # "handling"

\* A client connects: the kernel completes the handshake and the connection
\* waits in the listen backlog.
Connect(c) ==
    /\ conn[c].st = "new"
    /\ conn' = [conn EXCEPT ![c].st = "queued"]
    /\ queue' = Append(queue, c)
    /\ UNCHANGED <<handler, mimedb, workload>>

\* The client writes its request line.
Send(c) ==
    /\ conn[c].st \in {"queued", "handling"}
    /\ conn[c].sent = "no"
    /\ conn' = [conn EXCEPT ![c].sent = "request"]
    /\ UNCHANGED <<handler, mimedb, workload, queue>>

\* The client closes its end without having written anything.
Hangup(c) ==
    /\ conn[c].st \in {"queued", "handling"}
    /\ conn[c].sent = "no"
    /\ conn' = [conn EXCEPT ![c].sent = "eof"]
    /\ UNCHANGED <<handler, mimedb, workload, queue>>

\* _handle_request_noblock: get_request accepts the oldest waiting
\* connection, process_request constructs the handler, which starts to read
\* the request line.
Accept ==
    /\ ServerIdle
    /\ queue # <<>>
    /\ conn' = [conn EXCEPT ![Head(queue)].st = "handling"]
    /\ queue' = Tail(queue)
    /\ UNCHANGED <<handler, mimedb, workload>>

\* handle_one_request once rfile.readline returns: the request line is
\* parsed and answered, then the connection is shut down.
Handle(c) ==
    /\ conn[c].st = "handling"
    /\ conn[c].sent = "request"
    /\ \E raw \in Targets(workload) :
           conn' = [conn EXCEPT ![c].st = "done", ![c].handled = @ + 1,
                                ![c].resp = do_GET(handler, raw)]
    /\ UNCHANGED <<handler, mimedb, workload, queue>>

\* handle_one_request when readline returns b"": close_connection is set
\* and nothing is written.
HandleEof(c) ==
    /\ conn[c].st = "handling"
    /\ conn[c].sent = "eof"
    /\ conn' = [conn EXCEPT ![c].st = "done"]
    /\ UNCHANGED <<handler, mimedb, workload, queue>>

\* The client is finished with its connection and may open another one.
Finish(c) ==
    /\ conn[c].st = "done"
    /\ conn' = [conn EXCEPT ![c] = NewConn]
    /\ UNCHANGED <<handler, mimedb, workload, queue>>

\* One client sending any request target, one request after the other.
Init ==
    /\ handler \in Handlers
    /\ mimedb \in MimeDbs
    /\ workload = "any"
    /\ conn = [c \in {1} |-> NewConn]
    /\ queue = <<>>

\* Several clients with connections open at the same time.
InitConc ==
    /\ handler \in Handlers
    /\ mimedb \in MimeDbs
    /\ workload = "few"
    /\ conn = [c \in 1..NumClients |-> NewConn]
    /\ queue = <<>>

Next ==
    \/ \E c \in Clients : Connect(c)
    \/ \E c \in Clients : Send(c)
    \/ \E c \in Clients : Hangup(c)
    \/ Accept
    \/ \E c \in Clients : Handle(c)
    \/ \E c \in Clients : HandleEof(c)
    \/ \E c \in Clients : Finish(c)

Spec == Init /\ [][Next]_vars

SpecConc == InitConc /\ [][Next]_vars

-----------------------------------------------------------------------------
(* What the claims speak about *)

\* The responses of the connections the server has handled: a record with
\* status "none" is a request that ended without a response.
Handled == {conn[c].resp : c \in {d \in Clients : conn[d].resp.status # "-"}}

\* The responses that were written to a client.
Sent == {r \in Handled : r.status # "none"}

\* The text of a request target before its first "?" or "#".
StripSuffix(p) ==
    LET cut == {i \in 1..Len(p) : p[i] \in {"?", "#"}}
    IN IF cut = {} THEN p
       ELSE SubSeq(p, 1, (CHOOSE i \in cut : \A j \in cut : i <= j) - 1)

\* resolve_path: the file-system path a handler resolves a request target to.
resolve_path(h, raw) == translate_path(h, do_GET_path(h, ParseRequestPath(raw)))

\* The node a file-system path points at, by its text alone.
LexicalNode(path) ==
    LET comps == NormComps(Split(path), <<>>, TRUE)
    IN [i \in 1..Len(comps) |-> comps[i][1]]

HasDotDot(p) == \E i \in 1..Len(p) : p[i] = ".."

\* The directory the prefix /earth-engine-js/ is mapped to.
RemapTarget == Cwd \o <<"/", "earth-engine-js">>

MimeStrings ==
    {"text/html", "text/javascript", "text/plain", "text/wgsl", "chemical/x-xyz",
     "application/wasm", "application/javascript", "application/octet-stream"}

-----------------------------------------------------------------------------
(* C1: a GET whose path holds a ".." segment and whose resolution lands     *)
(* outside the document root is answered 403, never 200, and nothing       *)
(* outside the document root is ever served.                               *)
C1_TraversalRejected ==
    \A r \in Handled :
        (HasDotDot(r.req) /\ ~InsideRoot(LexicalNode(r.translated))) =>
            /\ r.status = "403"
            /\ r.body.kind \notin {"file", "listing"}

(* C2: a GET that resolves to an existing regular file is answered 200     *)
(* with the file's bytes, a Content-Type that is the one MIME string of    *)
(* guess_type (text/html for .html) and Access-Control-Allow-Origin: *;    *)
(* the MIME lookup never aborts the request.                               *)
C2_FileServed ==
    \A r \in Handled :
        IsFile(r.translated) =>
            /\ r.guess # ValueError
            /\ r.status = "200"
            /\ r.body = Body("file", Resolve(r.translated))
            /\ r.guess \in MimeStrings
            /\ <<"Content-type", r.guess>> \in r.headers
            /\ EndsWithExt(r.translated, ".html") => r.guess = "text/html"
            /\ ACAO \in r.headers

(* C3, as claimed: every response of every handler carries                 *)
(* Access-Control-Allow-Origin: *.                                         *)
C3_OriginHeaderAlways == \A r \in Sent : ACAO \in r.headers

(* C3, amended: every response of ESModuleHTTPRequestHandler and of        *)
(* WebGPUDevServer carries Access-Control-Allow-Origin: *, whatever its    *)
(* status; no response of MyHandler carries it.                            *)
C3_OriginHeaderPerHandler ==
    \A r \in Sent :
        /\ r.handler \in {"ESModuleHTTPRequestHandler", "WebGPUDevServer"}
              => ACAO \in r.headers
        /\ r.handler = "MyHandler" => ACAO \notin r.headers

\* WebGPUDevServer has answered 404 with the origin header.
C3_Witness ==
    \E r \in Sent :
        r.handler = "WebGPUDevServer" /\ r.status = "404" /\ ACAO \in r.headers

(* C4, as claimed: the development header set (Cache-Control, Pragma,      *)
(* Expires, Access-Control-Allow-Methods, Access-Control-Allow-Headers) is *)
(* on a response whole or not at all.                                      *)
C4_DevHeadersAllOrNothing ==
    \A r \in Sent :
        LET dev == r.headers \cap (CorsGroup \cup CacheGroup)
        IN dev = {} \/ dev = CorsGroup \cup CacheGroup

(* C4, amended: the cache-busting headers (Cache-Control, Pragma, Expires) *)
(* are on a response all three or not at all, and so are the extended CORS *)
(* headers (Access-Control-Allow-Methods, Access-Control-Allow-Headers);   *)
(* WebGPUDevServer sends both groups on every response,                    *)
(* ESModuleHTTPRequestHandler only the CORS group, MyHandler only the      *)
(* cache-busting group.                                                    *)
C4_HeaderGroups ==
    \A r \in Sent :
        /\ r.headers \cap CacheGroup \in {{}, CacheGroup}
        /\ r.headers \cap CorsGroup \in {{}, CorsGroup}
        /\ CacheGroup \subseteq r.headers
              <=> r.handler \in {"WebGPUDevServer", "MyHandler"}
        /\ CorsGroup \subseteq r.headers
              <=> r.handler \in {"WebGPUDevServer", "ESModuleHTTPRequestHandler"}

\* MyHandler has sent a response with the cache-busting headers and without
\* the CORS headers.
C4_Witness ==
    \E r \in Sent :
        /\ r.handler = "MyHandler"
        /\ CacheGroup \subseteq r.headers
        /\ r.headers \cap CorsGroup = {}

(* C5: resolve_path ignores everything from the first "?" or "#" on: a     *)
(* request target resolves to what its text before that character         *)
(* resolves to, on remapped and on default-resolved paths.                 *)
C5_SuffixIgnored ==
    \A r \in Handled : r.translated = resolve_path(r.handler, StripSuffix(r.req))

\* A remapped target with a fragment that holds a "?" has been resolved to
\* what the target without the fragment resolves to.
C5_Witness ==
    \E r \in Handled :
          /\ r.handler = "ESModuleHTTPRequestHandler"
          /\ StartsWith(r.req, RemapPrefix)
          /\ r.req # StripSuffix(r.req)
          /\ FirstIndex(r.req, "#") > 0
          /\ FirstIndex(r.req, "#") < FirstIndex(r.req, "?")
          /\ r.translated = resolve_path(r.handler, StripSuffix(r.req))

(* C6: a request path that starts with /earth-engine-js/ resolves to the   *)
(* remap target directory joined with exactly the rest of the path; every  *)
(* other path resolves inside the document root.                           *)
C6_RemapExactly ==
    \A r \in Handled :
        r.handler = "ESModuleHTTPRequestHandler" =>
            LET p == StripSuffix(r.req)
            IN IF StartsWith(p, RemapPrefix)
               THEN r.translated
                       = RemapTarget \o <<"/">> \o DropFirst(p, Len(RemapPrefix))
               ELSE StartsWith(r.translated, Cwd)

(* C7: guess_type of a handler that overrides it returns                   *)
(* application/javascript for .js and .mjs, application/wasm for .wasm,    *)
(* text/plain for .wgsl, whatever the default guess is, and the default    *)
(* guess (application/octet-stream when there is none) for anything else.  *)
C7_MimeOverrides ==
    \A r \in Handled :
        (r.handler \in {"ESModuleHTTPRequestHandler", "WebGPUDevServer"}
            /\ r.guess # "-") =>
            r.guess =
                IF EndsWithExt(r.fspath, ".js") \/ EndsWithExt(r.fspath, ".mjs")
                THEN "application/javascript"
                ELSE IF EndsWithExt(r.fspath, ".wasm") THEN "application/wasm"
                ELSE IF EndsWithExt(r.fspath, ".wgsl") THEN "text/plain"
                ELSE Lib_guess_type(r.fspath)

(* C8: a GET whose resolved path names no file and no directory is         *)
(* answered 404 with an error body, never 200 and never nothing.           *)
C8_MissingIs404 ==
    \A r \in Handled :
        Resolve(r.translated) = NoNode =>
            r.status = "404" /\ r.body.kind = "error"

(* C9: every error raised while a request is handled becomes an HTTP       *)
(* response for that request: no handled request ends without a response.  *)
C9_EveryErrorAnswered ==
    \A c \in Clients :
        conn[c].handled > 0 =>
            conn[c].resp.status \in {"200", "301", "403", "404", "500"}

\* A connection the server is handling whose client has not written its
\* request yet.
Stalled(c) == conn[c].st = "handling" /\ conn[c].sent = "no"

\* A connection whose request is written and which the server has not
\* accepted.
Waiting(c) == conn[c].st = "queued" /\ conn[c].sent = "request"

(* C10, as claimed: no request blocks another: a request that has been     *)
(* sent never waits while the server sits on another, stalled connection.  *)
C10_NoRequestBlocksAnother ==
    \A c1, c2 \in Clients : ~(c1 # c2 /\ Stalled(c1) /\ Waiting(c2))

(* C10, amended: the server handles one connection at a time: while it is  *)
(* handling one connection every other connection waits in the backlog,    *)
(* in the order of arrival, so a stalled first connection does delay the   *)
(* second; each request is handled exactly once.                           *)
C10_OneAtATime ==
    /\ Cardinality({c \in Clients : conn[c].st = "handling"}) <= 1
    /\ \A c \in Clients :
          /\ conn[c].handled <= 1
          /\ (conn[c].st = "done" /\ conn[c].sent = "request") => conn[c].handled = 1
          /\ conn[c].st # "done" => conn[c].handled = 0
          /\ conn[c].st = "queued" <=> \E i \in 1..Len(queue) : queue[i] = c
    /\ \A i, j \in 1..Len(queue) : queue[i] = queue[j] => i = j

\* A request that has been sent waits behind a stalled connection.
C10_Witness ==
    \E c1, c2 \in Clients : c1 # c2 /\ Stalled(c1) /\ Waiting(c2)

====
